---- MODULE Spec2Model ----
(***************************************************************************)
(* State-machine model of the BizPredict forecasting pipeline:             *)
(*   - SalesForecaster        (src/src/forecasting_model.py)               *)
(*   - ForecastingService     (src/backend/model.py)                       *)
(*   - the REST handlers      (src/backend/app.py)                         *)
(*   - EthiopiaSalesDataGenerator (src/src/data_generator.py)              *)
(*   - InsightEngine          (src/src/insight_engine.py)                  *)
(* Dates are day ordinals (day 1 = 2020-01-01).  A DataFrame is a sequence *)
(* of rows.  Python's None is a record with none |-> TRUE, so that every   *)
(* field keeps one type.  Prophet is an external library: only what the    *)
(* callers observe of it is modelled (fit refuses fewer than two rows,     *)
(* make_future_dataframe keeps the history dates and appends the future    *)
(* days, predict answers one row per requested date, deterministically     *)
(* from the fitted history).                                               *)
(***************************************************************************)
EXTENDS Integers, Sequences, FiniteSets, TLC

VARIABLES
    sales_df,     \* the transaction table the SalesForecaster's caller holds
    forecaster,   \* SalesForecaster: [model, df_train, df_test]
    fc_result,    \* outcome of the last SalesForecaster call
    service,      \* ForecastingService: [df, model, data_loaded, model_trained]
    startup,      \* position of startup_event: "init", "loaded", "ready", "failed"
    svc_result,   \* the request being answered when requests are served in turn
    handlers,     \* concurrent request handlers: handler id -> [pc, endpoint]
    isolated,     \* whether every concurrent response so far equals that of a lone run
    rng,          \* the process-wide generators of random and numpy.random
    generators,   \* EthiopiaSalesDataGenerator objects: id -> [made, start_date, end_date, seed]
    gen_last,     \* the generator the preceding statement constructed, "" after a call
    gen_runs,     \* the generate_sales_data calls made so far, with their tables
    engine        \* InsightEngine: [sales_df, forecast_df, insights], and its last call

vars == <<sales_df, forecaster, fc_result, service, startup, svc_result, handlers, isolated,
          rng, generators, gen_last, gen_runs, engine>>
genVars == <<rng, generators, gen_last, gen_runs>>
insVars == <<engine>>
fcVars == <<sales_df, forecaster, fc_result>>
svcVars == <<service, startup, svc_result>>
restVars == <<handlers, isolated>>

(***************************************************************************)
(* Bounds of the model.                                                    *)
(***************************************************************************)
FcMaxDate == 3      \* SalesForecaster inputs: transaction dates 1..FcMaxDate
FcMaxRows == 3      \* SalesForecaster inputs: at most this many transactions
MaxPeriods == 2     \* forecast horizons 0..MaxPeriods
SvcMaxDate == 2     \* service table: transaction dates 1..SvcMaxDate
SvcMaxRows == 3     \* service table: at most this many transactions

(***************************************************************************)
(* Program constants.                                                      *)
(***************************************************************************)
Regions == {"Addis Ababa", "Oromia"}
\* The regions that occur in the tables the service loads.
DataRegions == {"Addis Ababa"}
Categories == {"Coffee", "Teff"}
CoffeeBase == 5000
TeffBase == 3000
base_amounts == [c \in Categories |-> IF c = "Coffee" THEN CoffeeBase ELSE TeffBase]

(***************************************************************************)
(* Python values.                                                          *)
(***************************************************************************)
None == "<None>"
Truthy(x) == x # None /\ x # ""

\* Money is kept in thousandths so that rounding to two decimals does something.
Milli(x) == x * 1000

AbsDiff(a, b) == IF a >= b THEN a - b ELSE b - a
Min(a, b) == IF a < b THEN a ELSE b
Max(a, b) == IF a > b THEN a ELSE b

\* Python's slice index normalisation for a sequence of length n.
PyIndex(i, n) == IF i < 0 THEN Max(n + i, 0) ELSE Min(i, n)
\* s[:stop]
IlocTo(s, stop) == SubSeq(s, 1, PyIndex(stop, Len(s)))
\* s[start:]
IlocFrom(s, start) == SubSeq(s, PyIndex(start, Len(s)) + 1, Len(s))

SeqsUpTo(S, n) == UNION {[1..k -> S] : k \in 0..n}

RECURSIVE SumSeq(_)
SumSeq(s) == IF s = <<>> THEN 0 ELSE Head(s) + SumSeq(Tail(s))

RECURSIVE SortedSeq(_)
\* The elements of a finite set of integers in increasing order.
SortedSeq(S) ==
    IF S = {} THEN <<>>
    ELSE LET m == CHOOSE x \in S : \A y \in S : x <= y
         IN <<m>> \o SortedSeq(S \ {m})

RowDates(rows) == {rows[i].date : i \in DOMAIN rows}

RECURSIVE SalesOn(_, _)
\* Sum of total_sales over the rows dated d.
SalesOn(rows, d) ==
    IF rows = <<>> THEN 0
    ELSE (IF Head(rows).date = d THEN Head(rows).total_sales ELSE 0)
         + SalesOn(Tail(rows), d)

\* A groupby that keeps the first transaction of each date instead of the sum.
GroupbyDateSum_first(rows) ==
    LET ds == SortedSeq(RowDates(rows))
    IN [i \in 1..Len(ds) |->
           [ds |-> ds[i],
            y |-> rows[CHOOSE k \in DOMAIN rows :
                          /\ rows[k].date = ds[i]
                          /\ \A j \in 1..(k - 1) : rows[j].date # ds[i]].total_sales]]

\* df.groupby('date')['total_sales'].sum().reset_index() with columns ds, y:
\* one row per date that has a transaction, in increasing date order.
GroupbyDateSum(rows) ==
    LET ds == SortedSeq(RowDates(rows))
    IN [i \in 1..Len(ds) |-> [ds |-> ds[i], y |-> SalesOn(rows, ds[i])]]

(***************************************************************************)
(* Prophet, as its callers observe it.                                     *)
(***************************************************************************)
\* A model: None, a Prophet object not yet fitted, or one fitted on a daily
\* series; monthly tells whether add_seasonality('monthly') was applied to it.
NoModel == [kind |-> "None", monthly |-> FALSE, history |-> <<>>]
UnfittedProphet(monthly) == [kind |-> "unfitted", monthly |-> monthly, history |-> <<>>]
FittedProphet(df, monthly) == [kind |-> "fitted", monthly |-> monthly, history |-> df]

\* Prophet.fit raises ValueError on fewer than two rows.
FitRaises(df) == Len(df) < 2

FitError == [type |-> "ValueError", msg |-> "Dataframe has less than 2 non-NaN rows."]
NotFitError == [type |-> "Exception", msg |-> "Model has not been fit."]
NoError == [type |-> "", msg |-> ""]

HistoryDates(m) == [i \in 1..Len(m.history) |-> m.history[i].ds]
LastTrainDate(m) == m.history[Len(m.history)].ds

\* make_future_dataframe whose future days start at the last training date.
MakeFutureDataframe_from_last(m, periods) ==
    HistoryDates(m) \o [i \in 1..periods |-> LastTrainDate(m) + i - 1]

\* Prophet.make_future_dataframe(periods): the history dates followed by the
\* `periods` calendar days after the last one (include_history defaults to True).
MakeFutureDataframe(m, periods) ==
    HistoryDates(m) \o [i \in 1..periods |-> LastTrainDate(m) + i]

\* The fitted level: the rounded-down mean of the history.
Level(m) == SumSeq([i \in 1..Len(m.history) |-> m.history[i].y]) \div Len(m.history)

\* predict whose interval lies above the point estimate.
Predict_crossed(m, dates) ==
    [i \in 1..Len(dates) |->
        LET yhat == 1000 * Level(m) + 125 * dates[i] + (IF m.monthly THEN 40 ELSE 0)
        IN [ds |-> dates[i], yhat |-> yhat,
            yhat_lower |-> yhat + 15, yhat_upper |-> yhat + 30]]

\* Prophet.predict(future): one row per requested date, a function of the fitted
\* history and the model's seasonalities alone.  Values are in thousandths; the
\* band widens with the distance from the last training date.
Predict(m, dates) ==
    [i \in 1..Len(dates) |->
        LET ahead == IF dates[i] > LastTrainDate(m) THEN dates[i] - LastTrainDate(m) ELSE 0
            yhat == 1000 * Level(m) + 125 * dates[i] + (IF m.monthly THEN 40 ELSE 0)
        IN [ds |-> dates[i], yhat |-> yhat,
            yhat_lower |-> yhat - 15 * (ahead + 1),
            yhat_upper |-> yhat + 15 * (ahead + 1)]]

(***************************************************************************)
(* SalesForecaster (src/src/forecasting_model.py)                          *)
(***************************************************************************)
NoFrame == [none |-> TRUE, rows |-> <<>>]
Frame(rows) == [none |-> FALSE, rows |-> rows]

ModelNotTrainedError ==
    [type |-> "ValueError", msg |-> "Model not trained. Call train_model() first."]
AttributeErrorNone == [type |-> "AttributeError", msg |-> "'NoneType' object"]

\* The outcome of a call: what it returned or what it raised, with its argument.
Returned(op, arg, frame) ==
    [op |-> op, arg |-> arg, status |-> "returned", error |-> NoError, frame |-> frame]
Raised(op, arg, err) ==
    [op |-> op, arg |-> arg, status |-> "raised", error |-> err, frame |-> <<>>]
NoCall == [op |-> "", arg |-> 0, status |-> "", error |-> NoError, frame |-> <<>>]

\* The transaction tables handed to prepare_data: only date and total_sales are read.
\* A table from outside the generator may hold a transaction of no value; one is
\* drawn for the last date, the one a holdout reaches first.
FcRows ==
    [date : 1..FcMaxDate, total_sales : {CoffeeBase}]
        \cup {[date |-> FcMaxDate, total_sales |-> 0]}
FcTables == SeqsUpTo(FcRows, FcMaxRows)
\* test_size: no holdout, every holdout up to one more than the longest series,
\* and a negative one.
TestSizes == (0 - 1)..(FcMaxDate + 1)

SalesForecasterInit ==
    /\ forecaster = [model |-> NoModel, df_train |-> NoFrame, df_test |-> NoFrame]
    /\ fc_result = NoCall

\* prepare_data that splits with iloc[:-test_size] and iloc[-test_size:].
prepare_data_tail_slice(df, test_size) ==
    LET df_daily == GroupbyDateSum(df)
    IN /\ forecaster' = [forecaster EXCEPT
                            !.df_train = Frame(IlocTo(df_daily, 0 - test_size)),
                            !.df_test = Frame(IlocFrom(df_daily, 0 - test_size))]
       /\ fc_result' = Returned("prepare_data", test_size, <<>>)

\* prepare_data(df, test_size)
prepare_data(df, test_size) ==
    LET df_daily == GroupbyDateSum(df)
        split_idx == Len(df_daily) - test_size
    IN /\ forecaster' = [forecaster EXCEPT
                            !.df_train = Frame(IlocTo(df_daily, split_idx)),
                            !.df_test = Frame(IlocFrom(df_daily, split_idx))]
       /\ fc_result' = Returned("prepare_data", test_size, <<>>)

\* train_model(): self.model is assigned before fit is attempted.
train_model ==
    IF forecaster.df_train.none
    THEN /\ forecaster' = [forecaster EXCEPT !.model = UnfittedProphet(TRUE)]
         /\ fc_result' = Raised("train_model", 0, AttributeErrorNone)
    ELSE IF FitRaises(forecaster.df_train.rows)
    THEN /\ forecaster' = [forecaster EXCEPT !.model = UnfittedProphet(TRUE)]
         /\ fc_result' = Raised("train_model", 0, FitError)
    ELSE /\ forecaster' = [forecaster EXCEPT
                              !.model = FittedProphet(forecaster.df_train.rows, TRUE)]
         /\ fc_result' = Returned("train_model", 0, <<>>)

\* forecast without its guard on self.model.
forecast_result_unguarded(f, periods) ==
    IF f.model.kind # "fitted"
    THEN Returned("forecast", periods, <<>>)
    ELSE Returned("forecast", periods, Predict(f.model, MakeFutureDataframe(f.model, periods)))

\* The outcome of forecast(periods) on a forecaster in state f.
forecast_result(f, periods) ==
    IF f.model.kind = "None" THEN Raised("forecast", periods, ModelNotTrainedError)
    ELSE IF f.model.kind = "unfitted" THEN Raised("forecast", periods, NotFitError)
    ELSE Returned("forecast", periods, Predict(f.model, MakeFutureDataframe(f.model, periods)))

\* forecast(periods)
forecast(periods) ==
    /\ fc_result' = forecast_result(forecaster, periods)
    /\ UNCHANGED forecaster

\* np.mean(np.abs((y_true - y_pred) / y_true)) * 100: numpy divides by zero
\* without raising, giving inf, or nan for 0 / 0; the mean of terms of which
\* one is nan is nan, else with one inf it is inf.  terms keeps each absolute
\* error with the actual value it is divided by, both in thousandths.
MeanAbsPctError(y_true, y_pred) ==
    LET terms == [i \in 1..Len(y_true) |->
                     <<AbsDiff(Milli(y_true[i]), y_pred[i]), Milli(y_true[i])>>]
    IN [kind |-> IF \E i \in DOMAIN terms : terms[i][2] = 0 /\ terms[i][1] = 0
                 THEN "nan"
                 ELSE IF \E i \in DOMAIN terms : terms[i][2] = 0 THEN "inf"
                 ELSE "finite",
        terms |-> terms]

\* sklearn's metrics refuse arrays of different lengths and empty arrays.
SamplesError ==
    [type |-> "ValueError", msg |-> "Found input variables with inconsistent numbers of samples"]

\* The metrics dictionary of evaluate_model: MAE as sum and count, MAPE as
\* above.  RMSE and R2 are functions of the same two arrays.
EvaluationMetrics(y_true, y_pred) ==
    [MAE |-> <<SumSeq([i \in 1..Len(y_true) |-> AbsDiff(Milli(y_true[i]), y_pred[i])]),
               Len(y_true)>>,
     MAPE |-> MeanAbsPctError(y_true, y_pred)]

\* The outcome of evaluate_model() on a forecaster in state f: there is no
\* guard; the first statement dereferences df_train, the third the model.
\* The model predicts the training dates followed by the holdout dates, and
\* the last len(df_test) predictions are scored against the holdout.
evaluate_result(f) ==
    IF f.df_train.none THEN Raised("evaluate_model", 0, AttributeErrorNone)
    ELSE IF f.model.kind = "None" THEN Raised("evaluate_model", 0, AttributeErrorNone)
    ELSE IF f.model.kind = "unfitted" THEN Raised("evaluate_model", 0, NotFitError)
    ELSE LET future == [i \in 1..Len(f.df_train.rows) |-> f.df_train.rows[i].ds]
                       \o [i \in 1..Len(f.df_test.rows) |-> f.df_test.rows[i].ds]
             fc == Predict(f.model, future)
             test_forecast == IlocFrom(fc, 0 - Len(f.df_test.rows))
             y_true == [i \in 1..Len(f.df_test.rows) |-> f.df_test.rows[i].y]
             y_pred == [i \in 1..Len(test_forecast) |-> test_forecast[i].yhat]
         IN IF Len(y_true) = 0 \/ Len(y_true) # Len(y_pred)
            THEN Raised("evaluate_model", 0, SamplesError)
            ELSE Returned("evaluate_model", 0, <<EvaluationMetrics(y_true, y_pred)>>)

\* evaluate_model()
evaluate_model ==
    /\ fc_result' = evaluate_result(forecaster)
    /\ UNCHANGED forecaster

\* The window get_forecast_summary takes from the end of the frame.
SummaryDays == 90

\* get_forecast_summary(forecast_df): the statistics of yhat over
\* forecast_df.iloc[-90:], for a frame with at least one row.  The field days
\* is not part of the dictionary: it records the dates the statistics cover.
get_forecast_summary(forecast_df) ==
    LET future_forecast == IlocFrom(forecast_df, 0 - SummaryDays)
        n == Len(future_forecast)
        yhat == [i \in 1..n |-> future_forecast[i].yhat]
        values == {yhat[i] : i \in 1..n}
    IN [total_forecasted_sales |-> SumSeq(yhat),
        avg_daily_sales |-> <<SumSeq(yhat), n>>,
        min_daily_sales |-> CHOOSE v \in values : \A w \in values : v <= w,
        max_daily_sales |-> CHOOSE v \in values : \A w \in values : v >= w,
        trend |-> IF yhat[n] > yhat[1] THEN "increasing" ELSE "decreasing",
        days |-> [i \in 1..n |-> future_forecast[i].ds]]

\* summary = forecaster.get_forecast_summary(forecast), on the frame forecast
\* has just returned, as main does.
forecast_summary ==
    /\ fc_result.op = "forecast"
    /\ fc_result.status = "returned"
    /\ fc_result' = Returned("get_forecast_summary", fc_result.arg,
                             <<get_forecast_summary(fc_result.frame)>>)
    /\ UNCHANGED forecaster

(***************************************************************************)
(* ForecastingService (src/backend/model.py)                               *)
(***************************************************************************)
\* round(2) of a value in thousandths, in hundredths (round half to even).
Round2(v) ==
    LET q == v \div 10
        r == v % 10
    IN IF r > 5 \/ (r = 5 /\ q % 2 = 1) THEN q + 1 ELSE q

DaysInMonth == <<31, 29, 31, 30, 31, 30, 31, 31, 30, 31, 30, 31>>

RECURSIVE MonthDay(_, _)
\* Month and day of month of day ordinal d of 2020, counting from month m.
MonthDay(d, m) ==
    IF m = 12 \/ d <= DaysInMonth[m] THEN <<m, d>>
    ELSE MonthDay(d - DaysInMonth[m], m + 1)

\* strftime('%Y-%m-%d'): year, month, day of month.
Strftime(d) == <<2020, MonthDay(d, 1)[1], MonthDay(d, 1)[2]>>

\* dt.to_period('M')
MonthOf(d) == MonthDay(d, 1)[1]
\* dt.to_period('W'): weeks end on Sunday; day 1 is a Wednesday.
WeekOf(d) == (d + 1) \div 7

NoDate == 0
NaT == <<0, 0, 0>>
CategoryOrder == <<"Coffee", "Teff">>
RegionOrder == <<"Addis Ababa", "Oromia">>

\* The tables pd.read_csv may deliver.
SvcRows ==
    {[date |-> d, product_category |-> c, region |-> r, total_sales |-> base_amounts[c]] :
        d \in 1..SvcMaxDate, c \in Categories, r \in DataRegions}
\* The file is the generator's output, whose rows are in date order.
SvcTables ==
    {t \in SeqsUpTo(SvcRows, SvcMaxRows) :
        \A i \in 1..(Len(t) - 1) : t[i].date <= t[i + 1].date}

EmptyArgmaxError == [type |-> "ValueError", msg |-> "attempt to get argmax of an empty sequence"]
BroadcastError == [type |-> "ValueError", msg |-> "operands could not be broadcast together"]
DataNotLoadedError == [type |-> "ValueError", msg |-> "Data not loaded"]
ServiceNotTrainedError == [type |-> "ValueError", msg |-> "Model not trained"]

ForecastingServiceInit ==
    service = [df |-> NoFrame, model |-> NoModel,
               data_loaded |-> FALSE, model_trained |-> FALSE]

\* load_data(): read_csv may fail (the table stays as it was), to_datetime may
\* fail after self.df was assigned; both failures are swallowed.
load_data(svc, outcome, table) ==
    IF outcome = "read_failed" THEN [svc EXCEPT !.data_loaded = FALSE]
    ELSE IF outcome = "dates_failed"
    THEN [svc EXCEPT !.df = Frame(table), !.data_loaded = FALSE]
    ELSE [svc EXCEPT !.df = Frame(table), !.data_loaded = TRUE]

LoadOutcomes == {"ok", "read_failed", "dates_failed"}

\* A method's effect: the service afterwards, and what it returned or raised.
Effect(svc, status, error, body) ==
    [service |-> svc, status |-> status, error |-> error, body |-> body]

\* train_model that swallows its failures the way load_data does.
ForecastingService_train_model_swallowing(svc) ==
    IF ~svc.data_loaded THEN Effect(svc, "returned", NoError, <<>>)
    ELSE LET df_daily == GroupbyDateSum(svc.df.rows)
         IN IF FitRaises(df_daily)
            THEN Effect([svc EXCEPT !.model = UnfittedProphet(TRUE)], "returned", NoError, <<>>)
            ELSE Effect([svc EXCEPT !.model = FittedProphet(df_daily, TRUE),
                                    !.model_trained = TRUE],
                        "returned", NoError, <<>>)

\* train_model()
ForecastingService_train_model(svc) ==
    IF ~svc.data_loaded THEN Effect(svc, "raised", DataNotLoadedError, <<>>)
    ELSE LET df_daily == GroupbyDateSum(svc.df.rows)
         IN IF FitRaises(df_daily)
            THEN Effect([svc EXCEPT !.model = UnfittedProphet(TRUE)], "raised", FitError, <<>>)
            ELSE Effect([svc EXCEPT !.model = FittedProphet(df_daily, TRUE),
                                    !.model_trained = TRUE],
                        "returned", NoError, <<>>)

\* df_filtered of generate_forecast: a filter applies only when it is truthy.
ForecastFilter(rows, category, region) ==
    LET byCat == IF Truthy(category)
                 THEN SelectSeq(rows, LAMBDA t : t.product_category = category)
                 ELSE rows
    IN IF Truthy(region) THEN SelectSeq(byCat, LAMBDA t : t.region = region) ELSE byCat

\* forecast.iloc[-periods:]
ForecastFuture(fc, periods) == IlocFrom(fc, 0 - periods)
\* forecast.iloc[:-periods]
ForecastHistorical(fc, periods) == IlocTo(fc, 0 - periods)

\* numpy broadcasting of two arrays: a length-one array stretches.
Pick(a, i) == IF Len(a) = 1 THEN a[1] ELSE a[i]
Broadcastable(a, b) == Len(a) = Len(b) \/ Len(a) = 1 \/ Len(b) = 1

\* The metric arithmetic raises when the in-sample curve and the daily
\* series of the current table cannot be broadcast together.
MetricsRaise(model, df_daily, periods) ==
    LET historical == ForecastHistorical(MakeFutureDataframe(model, periods), periods)
    IN Len(historical) > 0 /\ Len(df_daily) > 0 /\ ~Broadcastable(historical, df_daily)

\* The dictionary generate_forecast returns, from the model it chose.  The
\* fields days, fitted_on and monthly are not part of the response: they record
\* the day ordinals of dates, and the history and the monthly seasonality of
\* the model that was used.
ForecastBody(model, df_filtered, periods) ==
    LET fc == Predict(model, MakeFutureDataframe(model, periods))
        forecast_future == ForecastFuture(fc, periods)
        historical == ForecastHistorical(fc, periods)
        df_daily == GroupbyDateSum(df_filtered)
        n == Len(forecast_future)
        scored == Len(historical) > 0 /\ Len(df_daily) > 0
        errs == [i \in 1..Max(Len(historical), Len(df_daily)) |->
                    AbsDiff(Pick(historical, i).yhat, Milli(Pick(df_daily, i).y))]
    IN [dates |-> [i \in 1..n |-> Strftime(forecast_future[i].ds)],
        days |-> [i \in 1..n |-> forecast_future[i].ds],
        predictions |-> [i \in 1..n |-> Round2(forecast_future[i].yhat)],
        lower_bound |-> [i \in 1..n |-> Round2(forecast_future[i].yhat_lower)],
        upper_bound |-> [i \in 1..n |-> Round2(forecast_future[i].yhat_upper)],
        metrics |-> [mae |-> IF scored THEN <<SumSeq(errs), Len(errs)>> ELSE <<0, 1>>,
                     mape |-> IF scored
                              THEN [i \in 1..Len(errs) |->
                                       <<errs[i], Milli(Pick(df_daily, i).y)>>]
                              ELSE <<>>,
                     total_forecast |-> SumSeq([i \in 1..n |-> forecast_future[i].yhat]),
                     avg_daily |-> <<SumSeq([i \in 1..n |-> forecast_future[i].yhat]), n>>],
        fitted_on |-> model.history,
        monthly |-> model.monthly]

\* generate_forecast that keeps the filtered model as the service's model.
generate_forecast_storing(svc, periods, category, region) ==
    IF ~svc.model_trained THEN Effect(svc, "raised", ServiceNotTrainedError, <<>>)
    ELSE LET df_filtered == ForecastFilter(svc.df.rows, category, region)
             df_daily == GroupbyDateSum(df_filtered)
         IN IF Truthy(category) \/ Truthy(region)
            THEN IF FitRaises(df_daily)
                 THEN Effect(svc, "raised", FitError, <<>>)
                 ELSE Effect([svc EXCEPT !.model = FittedProphet(df_daily, FALSE)],
                             "returned", NoError,
                             ForecastBody(FittedProphet(df_daily, FALSE), df_filtered, periods))
            ELSE IF svc.model.kind # "fitted"
            THEN Effect(svc, "raised", NotFitError, <<>>)
            ELSE IF MetricsRaise(svc.model, df_daily, periods)
            THEN Effect(svc, "raised", BroadcastError, <<>>)
            ELSE Effect(svc, "returned", NoError,
                        ForecastBody(svc.model, df_filtered, periods))

\* generate_forecast(periods, category, region)
generate_forecast(svc, periods, category, region) ==
    IF ~svc.model_trained THEN Effect(svc, "raised", ServiceNotTrainedError, <<>>)
    ELSE LET df_filtered == ForecastFilter(svc.df.rows, category, region)
             df_daily == GroupbyDateSum(df_filtered)
         IN IF Truthy(category) \/ Truthy(region)
            THEN IF FitRaises(df_daily)
                 THEN Effect(svc, "raised", FitError, <<>>)
                 ELSE Effect(svc, "returned", NoError,
                             ForecastBody(FittedProphet(df_daily, FALSE), df_filtered, periods))
            ELSE IF svc.model.kind # "fitted"
            THEN Effect(svc, "raised", NotFitError, <<>>)
            ELSE IF MetricsRaise(svc.model, df_daily, periods)
            THEN Effect(svc, "raised", BroadcastError, <<>>)
            ELSE Effect(svc, "returned", NoError,
                        ForecastBody(svc.model, df_filtered, periods))

\* get_sales_stats()
get_sales_stats(svc) ==
    IF ~svc.data_loaded THEN Effect(svc, "raised", DataNotLoadedError, <<>>)
    ELSE LET rows == svc.df.rows
             sales == [i \in 1..Len(rows) |-> rows[i].total_sales]
             ds == SortedSeq(RowDates(rows))
         IN Effect(svc, "returned", NoError,
                   [total_sales |-> SumSeq(sales),
                    total_transactions |-> Len(rows),
                    avg_transaction |-> <<SumSeq(sales), Len(rows)>>,
                    date_range |->
                        IF rows = <<>> THEN [start |-> NaT, end |-> NaT]
                        ELSE [start |-> Strftime(ds[1]), end |-> Strftime(ds[Len(ds)])]])

\* Sum and count of total_sales over the rows whose column col has value v.
GroupSales(rows, col, v) ==
    LET grp == SelectSeq(rows, LAMBDA t : t[col] = v)
    IN [key |-> v,
        total_sales |-> SumSeq([i \in 1..Len(grp) |-> grp[i].total_sales]),
        num_transactions |-> Len(grp)]

\* groupby(col) in key order, keeping the keys that occur.
GroupsOf(rows, col, order) ==
    LET present == SelectSeq(order, LAMBDA v : \E i \in DOMAIN rows : rows[i][col] = v)
    IN [i \in 1..Len(present) |-> GroupSales(rows, col, present[i])]

RECURSIVE SortDescByTotal(_)
\* sort_values('total_sales', ascending=False); equal totals keep their order.
SortDescByTotal(groups) ==
    IF groups = <<>> THEN <<>>
    ELSE LET top == CHOOSE i \in DOMAIN groups :
                        /\ \A j \in DOMAIN groups : groups[j].total_sales <= groups[i].total_sales
                        /\ \A j \in 1..(i - 1) : groups[j].total_sales < groups[i].total_sales
         IN <<groups[top]>> \o
            SortDescByTotal(SubSeq(groups, 1, top - 1) \o SubSeq(groups, top + 1, Len(groups)))

\* get_product_stats() and get_region_stats(): no guard of their own.
get_group_stats(svc, col, order) ==
    IF svc.df.none THEN Effect(svc, "raised", AttributeErrorNone, <<>>)
    ELSE Effect(svc, "returned", NoError, SortDescByTotal(GroupsOf(svc.df.rows, col, order)))

get_product_stats(svc) == get_group_stats(svc, "product_category", CategoryOrder)
get_region_stats(svc) == get_group_stats(svc, "region", RegionOrder)

\* The key a row falls under for a trend period.
TrendKey(d, period) ==
    IF period = "daily" THEN d ELSE IF period = "weekly" THEN WeekOf(d) ELSE MonthOf(d)

\* get_trends(period)
get_trends(svc, period) ==
    IF svc.df.none THEN Effect(svc, "raised", AttributeErrorNone, <<>>)
    ELSE LET rows == svc.df.rows
             keyed == [i \in 1..Len(rows) |->
                          [date |-> TrendKey(rows[i].date, period),
                           total_sales |-> rows[i].total_sales]]
             trends == GroupbyDateSum(keyed)
         IN Effect(svc, "returned", NoError,
                   [periods |-> [i \in 1..Len(trends) |-> trends[i].ds],
                    sales |-> [i \in 1..Len(trends) |-> trends[i].y]])

\* get_categories()
get_categories(svc) ==
    IF svc.df.none THEN Effect(svc, "raised", AttributeErrorNone, <<>>)
    ELSE Effect(svc, "returned", NoError,
                SelectSeq(CategoryOrder,
                          LAMBDA c : \E i \in DOMAIN svc.df.rows :
                                        svc.df.rows[i].product_category = c))

\* df_filtered of get_historical_data.
HistoricalFilter(rows, start_date, end_date, category) ==
    LET a == IF start_date # NoDate
             THEN SelectSeq(rows, LAMBDA t : t.date >= start_date) ELSE rows
        b == IF end_date # NoDate
             THEN SelectSeq(a, LAMBDA t : t.date <= end_date) ELSE a
    IN IF Truthy(category)
       THEN SelectSeq(b, LAMBDA t : t.product_category = category) ELSE b

\* get_historical_data(start_date, end_date, category)
get_historical_data(svc, start_date, end_date, category) ==
    IF svc.df.none THEN Effect(svc, "raised", AttributeErrorNone, <<>>)
    ELSE LET daily_sales ==
                 GroupbyDateSum(HistoricalFilter(svc.df.rows, start_date, end_date, category))
         IN Effect(svc, "returned", NoError,
                   [dates |-> [i \in 1..Len(daily_sales) |-> Strftime(daily_sales[i].ds)],
                    sales |-> [i \in 1..Len(daily_sales) |->
                                  Round2(Milli(daily_sales[i].y))]])

RECURSIVE Product(_)
Product(s) == IF s = <<>> THEN 1 ELSE Head(s) * Product(Tail(s))

\* monthly_sales.pct_change().mean() * 100 > pct, for positive monthly totals:
\* the mean of (m[i+1] - m[i]) / m[i] is compared after clearing denominators.
\* Fewer than two months give NaN, and NaN > pct is false.
GrowthExceeds(m, pct) ==
    /\ Len(m) >= 2
    /\ LET k == Len(m) - 1
           base == SubSeq(m, 1, k)
           term(i) == (m[i + 1] - m[i]) *
                      Product(SubSeq(base, 1, i - 1) \o SubSeq(base, i + 1, k))
       IN 100 * SumSeq([i \in 1..k |-> term(i)]) > pct * k * Product(base)

\* idxmax of the group totals: the first key with the largest total.
TopKey(groups) == SortDescByTotal(groups)[1].key

\* generate_insights()
generate_insights(svc) ==
    IF svc.df.none THEN Effect(svc, "raised", AttributeErrorNone, <<>>)
    ELSE IF svc.df.rows = <<>> THEN Effect(svc, "raised", EmptyArgmaxError, <<>>)
    ELSE LET rows == svc.df.rows
             monthly == get_trends(svc, "monthly").body.sales
             growth == IF GrowthExceeds(monthly, 5)
                       THEN <<[category |-> "Growth", severity |-> "positive",
                               title |-> <<"Strong Growth Trend">>]>>
                       ELSE <<>>
             top_product == TopKey(GroupsOf(rows, "product_category", CategoryOrder))
             top_region == TopKey(GroupsOf(rows, "region", RegionOrder))
         IN Effect(svc, "returned", NoError,
                   growth \o
                   <<[category |-> "Products", severity |-> "info",
                      title |-> <<top_product, " - Top Performer">>],
                     [category |-> "Geography", severity |-> "info",
                      title |-> <<top_region, " - Leading Market">>]>>)

(***************************************************************************)
(* The REST layer (src/backend/app.py)                                     *)
(***************************************************************************)
DataEndpoints ==
    {"stats", "insights", "products", "regions", "trends", "categories", "historical"}
Endpoints == DataEndpoints \cup {"forecast"}

CategoryFilters == {None, ""} \cup Categories
RegionFilters == {None} \cup Regions
DateFilters == {NoDate} \cup (1..SvcMaxDate)
TrendPeriods == {"daily", "weekly", "monthly"}

NoRequest ==
    [periods |-> 0, category |-> None, region |-> None,
     start_date |-> NoDate, end_date |-> NoDate, period |-> "monthly"]

\* The requests an endpoint accepts.
Requests(endpoint) ==
    IF endpoint = "forecast"
    THEN {[NoRequest EXCEPT !.periods = p, !.category = c, !.region = r] :
            p \in 0..MaxPeriods, c \in CategoryFilters, r \in RegionFilters}
    ELSE IF endpoint = "historical"
    THEN {[NoRequest EXCEPT !.start_date = a, !.end_date = b, !.category = c] :
            a \in DateFilters, b \in DateFilters, c \in CategoryFilters}
    ELSE IF endpoint = "trends"
    THEN {[NoRequest EXCEPT !.period = q] : q \in TrendPeriods}
    ELSE {NoRequest}

Http(status, detail, body) == [status |-> status, detail |-> detail, body |-> body]

\* Handlers that all test data_loaded, the forecast handler included.
AppGuard_data_only(svc, endpoint) == svc.data_loaded

\* The readiness flag a handler tests before it calls the service.
AppGuard(svc, endpoint) ==
    IF endpoint = "forecast" THEN svc.model_trained ELSE svc.data_loaded

Unavailable(endpoint) ==
    Http(503, IF endpoint = "forecast" THEN "Model not trained" ELSE "Data not loaded", <<>>)

\* The service method a handler calls once its guard has passed.
ServiceCall(svc, endpoint, req) ==
    IF endpoint = "stats" THEN get_sales_stats(svc)
    ELSE IF endpoint = "forecast"
    THEN generate_forecast(svc, req.periods, req.category, req.region)
    ELSE IF endpoint = "insights" THEN generate_insights(svc)
    ELSE IF endpoint = "products" THEN get_product_stats(svc)
    ELSE IF endpoint = "regions" THEN get_region_stats(svc)
    ELSE IF endpoint = "trends" THEN get_trends(svc, req.period)
    ELSE IF endpoint = "categories" THEN get_categories(svc)
    ELSE get_historical_data(svc, req.start_date, req.end_date, req.category)

\* What the handler answers from the service method's outcome: get_forecast
\* turns every exception into a 500 carrying its text; elsewhere an exception
\* escapes to the framework, which answers 500.
HandlerResponse(endpoint, eff) ==
    IF eff.status = "returned" THEN Http(200, "", eff.body)
    ELSE IF endpoint = "forecast" THEN Http(500, eff.error.msg, <<>>)
    ELSE Http(500, "Internal Server Error", <<>>)

\* The response of one request handled alone on service state svc.
Respond(svc, endpoint, req) ==
    IF ~AppGuard(svc, endpoint) THEN Unavailable(endpoint)
    ELSE HandlerResponse(endpoint, ServiceCall(svc, endpoint, req))

\* A request being answered: whether it came through the running server,
\* whether its handler reached the service method, and the response.
Result(endpoint, req, served, computed, response) ==
    [endpoint |-> endpoint, req |-> req, served |-> served, computed |-> computed,
     response |-> response]
NoResult == Result("", NoRequest, FALSE, FALSE, Http(0, "", <<>>))

StartupInit ==
    startup = [pc |-> "init", load_outcome |-> "", train_status |-> "",
               snapshot |-> [df |-> NoFrame, model |-> NoModel,
                             data_loaded |-> FALSE, model_trained |-> FALSE]]

\* startup_event, first statement: forecast_service.load_data()
StartupLoad ==
    /\ startup.pc = "init"
    /\ svc_result = NoResult
    /\ \E outcome \in LoadOutcomes, table \in SvcTables :
          /\ service' = load_data(service, outcome, table)
          /\ startup' = [startup EXCEPT !.pc = "loaded", !.load_outcome = outcome]

\* startup_event, second statement: forecast_service.train_model(); an
\* exception leaves startup_event and the application does not start.
StartupTrain ==
    /\ startup.pc = "loaded"
    /\ LET eff == ForecastingService_train_model(service)
       IN /\ service' = eff.service
          /\ startup' = [startup EXCEPT
                            !.pc = IF eff.status = "raised" THEN "failed" ELSE "ready",
                            !.train_status = eff.status,
                            !.snapshot = eff.service]

\* One request handled from start to end with no other request in between:
\* through the running server (startup has completed), or by calling the
\* handler of an application whose startup event has not run or has failed.
Handle(endpoint, req) ==
    /\ startup.pc \in {"init", "failed", "ready"}
    /\ svc_result = NoResult
    /\ IF ~AppGuard(service, endpoint)
       THEN /\ svc_result' = Result(endpoint, req, startup.pc = "ready", FALSE,
                                    Unavailable(endpoint))
            /\ UNCHANGED service
       ELSE LET eff == ServiceCall(service, endpoint, req)
            IN /\ svc_result' = Result(endpoint, req, startup.pc = "ready", TRUE,
                                       HandlerResponse(endpoint, eff))
               /\ service' = eff.service
    /\ UNCHANGED startup

\* The response has been sent; the next request may be taken.
Reply ==
    /\ svc_result # NoResult
    /\ svc_result' = NoResult
    /\ UNCHANGED <<service, startup>>

\* The threads of the server's pool that run handlers.
Handlers == {"h1", "h2"}

\* The requests drawn while handlers run concurrently: the longest horizon,
\* every filter, no date window.
RestRequests(endpoint) ==
    {req \in Requests(endpoint) :
        /\ endpoint = "forecast" => req.periods = MaxPeriods
        /\ endpoint = "historical" => req.start_date = NoDate /\ req.end_date = NoDate}

\* The record of the comparisons made so far, after one more.
Compared(sofar, same) == IF sofar = "no" \/ ~same THEN "no" ELSE "yes"

HandlersInit ==
    /\ handlers = [h \in Handlers |-> [pc |-> "idle", endpoint |-> ""]]
    /\ isolated = "no response yet"

\* A handler starts on a request and tests its readiness flag; it answers 503
\* at once when the flag is false.
HandlerBegin(h, endpoint) ==
    /\ startup.pc = "ready"
    /\ handlers[h].pc = "idle"
    /\ IF AppGuard(service, endpoint)
       THEN /\ handlers' = [handlers EXCEPT ![h].pc = "called", ![h].endpoint = endpoint]
            /\ UNCHANGED isolated
       ELSE /\ UNCHANGED handlers
            /\ isolated' = Compared(isolated, \A req \in RestRequests(endpoint) :
                                Unavailable(endpoint) = Respond(startup.snapshot, endpoint, req))
    /\ UNCHANGED <<service, startup>>

\* The handler calls the service method and answers; the request's parameters
\* are the handler's own and are drawn where they are used.
HandlerCall(h) ==
    /\ handlers[h].pc = "called"
    /\ \E req \in RestRequests(handlers[h].endpoint) :
          LET endpoint == handlers[h].endpoint
              eff == ServiceCall(service, endpoint, req)
          IN /\ service' = eff.service
             /\ isolated' = Compared(isolated, HandlerResponse(endpoint, eff)
                                                 = Respond(startup.snapshot, endpoint, req))
    /\ handlers' = [handlers EXCEPT ![h] = [pc |-> "idle", endpoint |-> ""]]
    /\ UNCHANGED startup

(***************************************************************************)
(* EthiopiaSalesDataGenerator (src/src/data_generator.py)                  *)
(***************************************************************************)
GenMaxDate == 2     \* generator date arguments: the last day a range may end on
GenMaxRuns == 2     \* at most this many generate_sales_data calls are recorded

regions ==
    <<"Addis Ababa", "Oromia", "Amhara", "Tigray", "SNNPR", "Somali", "Afar", "Dire Dawa">>
product_categories ==
    <<"Coffee", "Teff", "Electronics", "Textiles", "Spices",
      "Livestock", "Vegetables", "Injera", "Leather Goods", "Cereals">>
customer_segments == <<"Retail", "Wholesale", "Export", "B2B", "Direct Consumer">>

\* base_amounts of generate_sales_data, for every product category.
product_base_amounts ==
    [c \in {product_categories[i] : i \in DOMAIN product_categories} |->
        CASE c = "Coffee" -> CoffeeBase
          [] c = "Teff" -> TeffBase
          [] c = "Electronics" -> 15000
          [] c = "Textiles" -> 8000
          [] c = "Spices" -> 2000
          [] c = "Livestock" -> 20000
          [] c = "Vegetables" -> 1500
          [] c = "Injera" -> 1000
          [] c = "Leather Goods" -> 12000
          [] OTHER -> 4000]

\* The two process-wide random generators, each a linear congruential
\* generator over a small state space; a seed fixes the state.
PyMod == 64
NpMod == 8
PyNext(s) == (5 * s + 13) % PyMod
NpNext(s) == (5 * s + 1) % NpMod
\* A constructor that seeds numpy's generator only.
Reseed_numpy_only(r, seed) == [r EXCEPT !.np = seed % NpMod]

\* random.seed(seed) and np.random.seed(seed) on generators in state r.
Reseed(r, seed) == [py |-> seed % PyMod, np |-> seed % NpMod]
\* Before any seeding the generators hold a state taken from the system;
\* no draw happens before a constructor has seeded them.
Unseeded == [py |-> 0, np |-> 0]

\* randint over the range shifted up by one: a+1..b+1.
randint_beyond(a, b, s) == a + 1 + (s % (b - a + 1))

\* random.randint(a, b) from the generator state after its step: a..b inclusive.
randint(a, b, s) == a + (s % (b - a + 1))

\* random.choice(seq) from the generator state after its step.
choice(seq, s) == seq[((s \div 4) % Len(seq)) + 1]

\* np.random.normal(1, 0.15), in thousandths, from the numpy generator state:
\* typical factors and one far in the lower tail.
NoiseFactors == <<1000, 850, 1150, 10>>
normal(s) == NoiseFactors[(s % Len(NoiseFactors)) + 1]

\* round(n / d) to the nearest integer, halves to even, for n >= 0 and d > 0.
RoundRatio(n, d) ==
    LET q == n \div d
        r == n % d
    IN IF 2 * r > d \/ (2 * r = d /\ q % 2 = 1) THEN q + 1 ELSE q

\* floor(v * n / d) for v, n >= 0 and d > 0, without forming v * n.
MulDiv(v, n, d) == (v \div d) * n + ((v % d) * n) \div d

\* date.dayofweek: Monday is 0; day 1 (2020-01-01) is a Wednesday.
DayOfWeek(d) == (d + 1) % 7

\* 1 + 0.2 * sin(2 * pi * month / 12), in thousandths.
MonthFactors == <<1100, 1173, 1200, 1173, 1100, 1000, 900, 827, 800, 827, 900, 1000>>

\* add_seasonality(base_value, date), amounts in thousandths.
add_seasonality(base_value, date) ==
    LET month == MonthDay(date, 1)[1]
        day == MonthDay(date, 1)[2]
        m0 == MonthFactors[month]
        m1 == IF month = 9 /\ 1 <= day /\ day <= 15 THEN (m0 * 15) \div 10
              ELSE IF month = 1 /\ 7 <= day /\ day <= 20 THEN (m0 * 14) \div 10
              ELSE IF month = 9 /\ 27 <= day /\ day <= 30 THEN (m0 * 13) \div 10
              ELSE IF month = 12 THEN (m0 * 16) \div 10
              ELSE m0
        month_factor == IF DayOfWeek(date) >= 5 THEN (m1 * 85) \div 100 ELSE m1
    IN MulDiv(base_value, month_factor, 1000)

\* add_trend(base_value, days_from_start): ten percent a year.
add_trend(base_value, days_from_start) ==
    base_value + MulDiv(base_value, days_from_start, 3650)

\* add_noise(value) with the drawn factor.
add_noise(value, noise_factor) == MulDiv(value, noise_factor, 1000)

\* The row's prices with unit_price left at the whole amount.
RowPrices_undivided(amount, quantity) ==
    [quantity |-> quantity, unit_price |-> Round2(amount), total_sales |-> Round2(amount)]

\* quantity, round(amount / quantity, 2) and round(amount, 2) of the appended
\* row; amount is in thousandths, the two prices in hundredths.
RowPrices(amount, quantity) ==
    [quantity |-> quantity,
     unit_price |-> RoundRatio(amount, 10 * quantity),
     total_sales |-> Round2(amount)]

\* One pass of the inner loop: the appended row and the generators afterwards.
\* random is drawn three times (region, product, segment), numpy once (noise).
Transaction(date, days_from_start, transaction_id, r) ==
    LET s1 == PyNext(r.py)
        s2 == PyNext(s1)
        s3 == PyNext(s2)
        n1 == NpNext(r.np)
        region == choice(regions, s1)
        product == choice(product_categories, s2)
        segment == choice(customer_segments, s3)
        base_amount == product_base_amounts[product]
        a1 == add_trend(Milli(base_amount), days_from_start)
        a2 == add_seasonality(a1, date)
        a3 == add_noise(a2, normal(n1))
        a4 == Max(Milli(100), a3)
        unit_price == Milli(base_amount) \div 10
        quantity == Max(1, a4 \div unit_price)
        a5 == IF region = "Addis Ababa" THEN MulDiv(a4, 13, 10)
              ELSE IF region = "Oromia" THEN MulDiv(a4, 11, 10)
              ELSE IF region = "Afar" THEN MulDiv(a4, 7, 10)
              ELSE a4
        amount == IF segment = "Wholesale" THEN MulDiv(a5, 15, 10)
                  ELSE IF segment = "Export" THEN a5 * 2
                  ELSE a5
        scaled == IF segment = "Wholesale" THEN quantity * 2
                  ELSE IF segment = "Export" THEN quantity * 3
                  ELSE quantity
        prices == RowPrices(amount, scaled)
    IN [row |-> [transaction_id |-> transaction_id, date |-> date, region |-> region,
                 product_category |-> product, customer_segment |-> segment,
                 quantity |-> prices.quantity, unit_price |-> prices.unit_price,
                 total_sales |-> prices.total_sales],
        rng |-> [py |-> s3, np |-> n1]]

\* The table so far with one more row, and the generators afterwards.
AppendTransaction(acc, date, days_from_start) ==
    LET t == Transaction(date, days_from_start, 1000 + Len(acc.rows), acc.rng)
    IN [rows |-> Append(acc.rows, t.row), rng |-> t.rng]

RECURSIVE DayRows(_, _, _, _)
\* The inner loop: k more transactions of one date appended to acc.
DayRows(date, days_from_start, k, acc) ==
    IF k = 0 THEN acc
    ELSE DayRows(date, days_from_start, k - 1, AppendTransaction(acc, date, days_from_start))

RECURSIVE DatesLoop(_, _, _, _)
\* The outer loop over generate_date_range(), from date to end_date; each
\* date first draws its number of transactions.
DatesLoop(date, start_date, end_date, acc) ==
    IF date > end_date THEN acc
    ELSE DatesLoop(date + 1, start_date, end_date,
                   DayRows(date, date - start_date,
                           randint(5, 20, PyNext(acc.rng.py)),
                           [acc EXCEPT !.rng.py = PyNext(@)]))

\* generate_sales_data() of generator g with the process generators in state r:
\* the table and the state the generators are left in.
generate_sales_data(g, r) ==
    DatesLoop(g.start_date, g.start_date, g.end_date, [rows |-> <<>>, rng |-> r])

GenIds == {"g1", "g2"}
\* The default seed, after which the first day draws the largest number of
\* transactions, and a seed after which it draws the smallest.
Seeds == {42, 7}
\* The date arguments: ranges of two days and of one day.
StartDates == {GenMaxDate - 1, GenMaxDate}
EndDates == {GenMaxDate}
NoGenerator == [made |-> FALSE, start_date |-> 0, end_date |-> 0, seed |-> 0]

GeneratorInit ==
    /\ rng = Unseeded
    /\ generators = [g \in GenIds |-> NoGenerator]
    /\ gen_last = ""
    /\ gen_runs = <<>>

\* EthiopiaSalesDataGenerator(start_date, end_date, seed) bound to name g:
\* the constructor seeds both process-wide generators.  Constructions stop
\* with the recorded calls.
GenConstruct(g, start_date, end_date, seed) ==
    /\ Len(gen_runs) < GenMaxRuns
    /\ generators' = [generators EXCEPT
                         ![g] = [made |-> TRUE, start_date |-> start_date,
                                 end_date |-> end_date, seed |-> seed]]
    /\ rng' = Reseed(rng, seed)
    /\ gen_last' = g
    /\ UNCHANGED gen_runs

\* g.generate_sales_data(); the call is recorded with the generator's
\* arguments and whether it directly followed the construction of g.
GenGenerate(g) ==
    /\ generators[g].made
    /\ Len(gen_runs) < GenMaxRuns
    /\ LET out == generate_sales_data(generators[g], rng)
       IN /\ rng' = out.rng
          /\ gen_runs' = Append(gen_runs,
                 [args |-> <<generators[g].start_date, generators[g].end_date,
                             generators[g].seed>>,
                  direct |-> gen_last = g,
                  table |-> out.rows])
    /\ gen_last' = ""
    /\ UNCHANGED generators

(***************************************************************************)
(* InsightEngine (src/src/insight_engine.py)                               *)
(***************************************************************************)
InsMaxMonths == 5     \* the sales table covers at most this many months
InsMaxInsights == 2   \* analyses run while fewer insights than this are held

InsMaxBatches == 2    \* generate_all_insights runs while fewer batches than this are held

\* No engine has been constructed.
NoEngine ==
    [made |-> FALSE, sales_df |-> <<>>, forecast_df |-> NoFrame, insights |-> <<>>,
     last_call |-> ""]

\* InsightEngine(sales_df, forecast_df): a copy of the table, the forecast
\* frame or None, and an empty insights list.
InsightEngineInit(table, forecast_df) ==
    [made |-> TRUE, sales_df |-> table, forecast_df |-> forecast_df, insights |-> <<>>,
     last_call |-> ""]

\* The first day of month i of 2020.
FirstDayOfMonth(i) == 1 + SumSeq(SubSeq(DaysInMonth, 1, i - 1))

\* The tables analyze_trends is studied on: one transaction on the first day
\* of each of the first months of the year, with the two columns it reads.
InsAmounts == {20, 21, 22, 24}
InsTables ==
    {[i \in 1..Len(a) |-> [date |-> FirstDayOfMonth(i), total_sales |-> a[i]]] :
        a \in SeqsUpTo(InsAmounts, InsMaxMonths) \ {<<>>}}

RECURSIVE Gcd(_, _)
Gcd(a, b) == IF b = 0 THEN a ELSE Gcd(b, a % b)
RECURSIVE LcmSeq(_)
\* The least common multiple of a sequence of positive integers.
LcmSeq(s) ==
    IF s = <<>> THEN 1
    ELSE LET l == LcmSeq(Tail(s)) IN (Head(s) \div Gcd(Head(s), l)) * l

\* sales_df.groupby(date.dt.to_period('M'))['total_sales'].sum(): the totals
\* of the months that occur, in month order.
MonthlySales(table) ==
    LET keyed == [i \in 1..Len(table) |->
                     [date |-> MonthOf(table[i].date), total_sales |-> table[i].total_sales]]
        monthly == GroupbyDateSum(keyed)
    IN [i \in 1..Len(monthly) |-> monthly[i].y]

\* monthly_sales.pct_change() * 100 without its leading NaN, for positive
\* totals, as exact fractions over the common denominator LcmSeq(m).
GrowthRates(m) ==
    [i \in 1..(Len(m) - 1) |-> 100 * (m[i + 1] - m[i]) * (LcmSeq(m) \div m[i])]

\* growth_rates.iloc[-3:] without NaN: the last three entries of a series
\* whose first entry is the NaN.
RecentRates(m) ==
    LET rates == GrowthRates(m)
        kept == IF Len(m) <= 3 THEN Len(rates) ELSE 3
    IN SubSeq(rates, Len(rates) - kept + 1, Len(rates))

\* avg_growth > c and avg_growth < c; the mean of no rate is NaN, and every
\* comparison with NaN is false.
AvgGrowthAbove(m, c) ==
    /\ Len(m) >= 2
    /\ SumSeq(GrowthRates(m)) > c * LcmSeq(m) * Len(GrowthRates(m))
AvgGrowthBelow(m, c) ==
    /\ Len(m) >= 2
    /\ SumSeq(GrowthRates(m)) < c * LcmSeq(m) * Len(GrowthRates(m))
\* recent_growth > avg_growth + c
RecentAboveAvgPlus(m, c) ==
    /\ Len(m) >= 2
    /\ LET k == Len(GrowthRates(m))
           r == Len(RecentRates(m))
       IN SumSeq(RecentRates(m)) * k > SumSeq(GrowthRates(m)) * r + c * LcmSeq(m) * k * r

\* An insight: title is the fixed part of the title, subject what the
\* f-strings of title and description name (a category, a region, a segment,
\* month numbers).  The amounts in description and the recommendation text
\* are not kept.
InsightAbout(category, severity, title, subject) ==
    [category |-> category, severity |-> severity, title |-> title, subject |-> subject]
Insight(category, severity, title) == InsightAbout(category, severity, title, <<>>)

\* analyze_trends with its first threshold met from 5 percent on.
analyze_trends_inclusive(e) ==
    LET m == MonthlySales(e.sales_df)
        trend == IF ~AvgGrowthBelow(m, 5) /\ Len(m) >= 2
                 THEN <<Insight("Growth", "positive", "Strong Overall Growth")>>
                 ELSE IF AvgGrowthBelow(m, 0 - 5)
                 THEN <<Insight("Growth", "warning", "Declining Sales Trend")>>
                 ELSE <<>>
        recent == IF RecentAboveAvgPlus(m, 5)
                  THEN <<Insight("Growth", "positive", "Accelerating Growth")>>
                  ELSE <<>>
    IN [e EXCEPT !.insights = @ \o trend \o recent, !.last_call = "analyze_trends"]

\* analyze_trends(): the engine afterwards.
analyze_trends(e) ==
    LET m == MonthlySales(e.sales_df)
        trend == IF AvgGrowthAbove(m, 5)
                 THEN <<Insight("Growth", "positive", "Strong Overall Growth")>>
                 ELSE IF AvgGrowthBelow(m, 0 - 5)
                 THEN <<Insight("Growth", "warning", "Declining Sales Trend")>>
                 ELSE <<>>
        recent == IF RecentAboveAvgPlus(m, 5)
                  THEN <<Insight("Growth", "positive", "Accelerating Growth")>>
                  ELSE <<>>
    IN [e EXCEPT !.insights = @ \o trend \o recent, !.last_call = "analyze_trends"]

\* The tables with every column of the generator's output.
FullRow(slot, date, amount) ==
    [date |-> date, product_category |-> slot.product_category, region |-> slot.region,
     customer_segment |-> slot.customer_segment, total_sales |-> amount]
\* A table without the columns an analysis groups by makes it raise KeyError
\* before anything is appended.
HasColumns(table) == "product_category" \in DOMAIN table[1]

SegmentOrder == <<"Retail", "Wholesale">>
GroupSlots ==
    <<[product_category |-> "Coffee", region |-> "Addis Ababa", customer_segment |-> "Retail"],
      [product_category |-> "Teff", region |-> "Oromia", customer_segment |-> "Wholesale"],
      [product_category |-> "Coffee", region |-> "Oromia", customer_segment |-> "Retail"]>>
Absent == 0 - 1
\* Amounts whose totals have the ratios 10 (20 : 2) and 11 (20 + 2 : 2), and
\* a transaction of no value.
GroupAmounts == {0, 2, 20}
\* Tables of one day: for each slot one transaction of a drawn amount, or none.
GroupTables ==
    {LET present == SelectSeq([k \in 1..Len(GroupSlots) |-> k], LAMBDA k : c[k] # Absent)
     IN [i \in 1..Len(present) |-> FullRow(GroupSlots[present[i]], 1, c[present[i]])] :
        c \in [1..Len(GroupSlots) -> GroupAmounts \cup {Absent}]} \ {<<>>}

\* nlargest(3) and nsmallest(3) of analyze_seasonality.
PeakMonths == 3
\* Tables of one transaction a month over one month more than nlargest keeps.
MonthTables ==
    {[i \in 1..(PeakMonths + 1) |->
         FullRow(GroupSlots[(i % Len(GroupSlots)) + 1], FirstDayOfMonth(i), a[i])] :
        a \in [1..(PeakMonths + 1) -> {20, 22}]}

\* The window of analyze_forecast: iloc[-30:] of the daily totals and of the forecast.
ForecastWindow == 30
\* Tables of one day, and of one day more than the window whose first day differs.
ForecastTables ==
    {[i \in 1..n |-> FullRow(GroupSlots[1], i, IF i = 1 /\ n > 1 THEN 2 ELSE rest)] :
        n \in {1, ForecastWindow + 1}, rest \in {0, 20}}
\* Forecast frames: no row, one row, and one row more than the window whose
\* first row differs; against a recent mean of 20 the values give a change of
\* -100, -15, -10, 0, 10 and 15 percent.
ForecastFrames ==
    {Frame(<<>>)} \cup
    {Frame([i \in 1..n |-> [ds |-> i, yhat |-> IF i = 1 /\ n > 1 THEN 100 ELSE v]]) :
        n \in {1, ForecastWindow + 1}, v \in {0, 17, 18, 20, 22, 23}}

\* The engines main may construct: (sales_df, forecast_df).
InsInputs ==
    ((InsTables \cup GroupTables \cup MonthTables) \X {NoFrame})
        \cup (ForecastTables \X ForecastFrames)

RECURSIVE NExtreme(_, _, _)
\* Series.nlargest(n) (largest) and nsmallest(n) of the group means: n times
\* the first of the remaining groups that no other beats; the keys, in that
\* order.  Means are compared exactly, as sum / count.
NExtreme(groups, n, largest) ==
    IF n = 0 \/ groups = <<>> THEN <<>>
    ELSE LET AvgLess(a, b) ==
                 a.total_sales * b.num_transactions < b.total_sales * a.num_transactions
             beats(a, b) == IF largest THEN AvgLess(b, a) ELSE AvgLess(a, b)
             k == CHOOSE i \in DOMAIN groups :
                      /\ \A j \in DOMAIN groups : ~beats(groups[j], groups[i])
                      /\ \A j \in 1..(i - 1) : beats(groups[i], groups[j])
         IN <<groups[k].key>> \o
            NExtreme(SubSeq(groups, 1, k - 1) \o SubSeq(groups, k + 1, Len(groups)),
                     n - 1, largest)

\* analyze_seasonality(): two info insights naming the three months of the
\* year with the highest and with the lowest mean transaction.
analyze_seasonality(e) ==
    LET keyed == [i \in 1..Len(e.sales_df) |->
                     [month |-> MonthOf(e.sales_df[i].date),
                      total_sales |-> e.sales_df[i].total_sales]]
        monthly_avg == GroupsOf(keyed, "month", [m \in 1..12 |-> m])
    IN [e EXCEPT !.insights = @ \o
            <<InsightAbout("Seasonality", "info", "Peak Sales Periods",
                           NExtreme(monthly_avg, PeakMonths, TRUE)),
              InsightAbout("Seasonality", "info", "Low Sales Periods",
                           NExtreme(monthly_avg, PeakMonths, FALSE))>>,
                 !.last_call = "analyze_seasonality"]

\* analyze_products whose warning fires from a ratio of 10 on.
analyze_products_inclusive(e) ==
    LET product_sales ==
            SortDescByTotal(GroupsOf(e.sales_df, "product_category", CategoryOrder))
        top == product_sales[1]
        bottom == product_sales[Len(product_sales)]
    IN [e EXCEPT !.insights = @ \o
            <<InsightAbout("Products", "positive", " - Top Performer", <<top.key>>)>> \o
            (IF top.total_sales >= 10 * bottom.total_sales /\ top.key # bottom.key
             THEN <<InsightAbout("Products", "warning", " - Underperforming", <<bottom.key>>)>>
             ELSE <<>>),
                 !.last_call = "analyze_products"]

\* analyze_products(): totals per category (whole amounts, which round(2)
\* leaves alone) sorted descending; the first and the last row are named.
\* revenue_ratio > 10 is taken on numpy floats, for totals >= 0: x / 0 is inf
\* for x > 0, and 0 / 0 is nan, which compares false; neither raises.
analyze_products(e) ==
    LET product_sales ==
            SortDescByTotal(GroupsOf(e.sales_df, "product_category", CategoryOrder))
        top == product_sales[1]
        bottom == product_sales[Len(product_sales)]
        revenue_ratio_above_10 ==
            IF bottom.total_sales = 0 THEN top.total_sales > 0
            ELSE top.total_sales > 10 * bottom.total_sales
    IN [e EXCEPT !.insights = @ \o
            <<InsightAbout("Products", "positive", " - Top Performer", <<top.key>>)>> \o
            (IF revenue_ratio_above_10
             THEN <<InsightAbout("Products", "warning", " - Underperforming", <<bottom.key>>)>>
             ELSE <<>>),
                 !.last_call = "analyze_products"]

\* analyze_regions that warns only when the ratio gate of the products is met.
analyze_regions_gated(e) ==
    LET regional_sales == SortDescByTotal(GroupsOf(e.sales_df, "region", RegionOrder))
        top == regional_sales[1]
        bottom == regional_sales[Len(regional_sales)]
    IN [e EXCEPT !.insights = @ \o
            <<InsightAbout("Geography", "positive", " - Top Regional Market", <<top.key>>)>> \o
            (IF top.total_sales > 10 * bottom.total_sales
             THEN <<InsightAbout("Geography", "warning", " - Growth Opportunity", <<bottom.key>>)>>
             ELSE <<>>),
                 !.last_call = "analyze_regions"]

\* analyze_regions()
analyze_regions(e) ==
    LET regional_sales == SortDescByTotal(GroupsOf(e.sales_df, "region", RegionOrder))
        top_region == regional_sales[1].key
        bottom_region == regional_sales[Len(regional_sales)].key
    IN [e EXCEPT !.insights = @ \o
            <<InsightAbout("Geography", "positive", " - Top Regional Market", <<top_region>>),
              InsightAbout("Geography", "warning", " - Growth Opportunity", <<bottom_region>>)>>,
                 !.last_call = "analyze_regions"]

\* analyze_customer_segments()
analyze_customer_segments(e) ==
    LET segment_sales ==
            SortDescByTotal(GroupsOf(e.sales_df, "customer_segment", SegmentOrder))
    IN [e EXCEPT !.insights = @ \o
            <<InsightAbout("Customers", "info", " - Primary Customer Base",
                           <<segment_sales[1].key>>)>>,
                 !.last_call = "analyze_customer_segments"]

\* The Forecast insight for change_pct = (forecast_avg - recent_avg) /
\* recent_avg * 100, the two means given as sum and count.  The mean of no
\* value is nan, as is 0 / 0, and nan compares false both ways; x / 0 is inf
\* with the sign of x.  Otherwise recent_avg > 0 and change_pct > 10 is
\* 10 * forecast_avg > 11 * recent_avg, change_pct < -10 is 10 * forecast_avg
\* < 9 * recent_avg.
ForecastInsight(sumR, nR, sumF, nF) ==
    LET nan == nR = 0 \/ nF = 0 \/ (sumR = 0 /\ sumF = 0)
        above == IF sumR = 0 THEN sumF > 0 ELSE 10 * sumF * nR > 11 * sumR * nF
        below == IF sumR = 0 THEN sumF < 0 ELSE 10 * sumF * nR < 9 * sumR * nF
    IN IF ~nan /\ above THEN Insight("Forecast", "positive", "Strong Growth Expected")
       ELSE IF ~nan /\ below THEN Insight("Forecast", "warning", "Sales Decline Expected")
       ELSE Insight("Forecast", "info", "Stable Sales Expected")

\* analyze_forecast that compares the means of the whole series.
analyze_forecast_whole(e) ==
    IF e.forecast_df.none THEN [e EXCEPT !.last_call = "analyze_forecast"]
    ELSE LET daily == GroupbyDateSum(e.sales_df)
             fc == e.forecast_df.rows
         IN [e EXCEPT !.insights = Append(@,
                 ForecastInsight(SumSeq([i \in 1..Len(daily) |-> daily[i].y]), Len(daily),
                                 SumSeq([i \in 1..Len(fc) |-> fc[i].yhat]), Len(fc))),
                      !.last_call = "analyze_forecast"]

\* analyze_forecast()
analyze_forecast(e) ==
    IF e.forecast_df.none THEN [e EXCEPT !.last_call = "analyze_forecast"]
    ELSE LET recent == IlocFrom(GroupbyDateSum(e.sales_df), 0 - ForecastWindow)
             fc == IlocFrom(e.forecast_df.rows, 0 - ForecastWindow)
         IN [e EXCEPT !.insights = Append(@,
                 ForecastInsight(SumSeq([i \in 1..Len(recent) |-> recent[i].y]), Len(recent),
                                 SumSeq([i \in 1..Len(fc) |-> fc[i].yhat]), Len(fc))),
                      !.last_call = "analyze_forecast"]

\* generate_all_insights(): the six analyses in order, appending to self.insights.
generate_all_insights(e) ==
    [analyze_forecast(analyze_customer_segments(analyze_regions(
        analyze_products(analyze_seasonality(analyze_trends(e))))))
     EXCEPT !.last_call = "generate_all_insights"]

\* display_insights(): generates first when the list is empty; printing
\* leaves the engine alone.
display_insights(e) ==
    [(IF e.insights = <<>> THEN generate_all_insights(e) ELSE e)
     EXCEPT !.last_call = "display_insights"]

\* export_insights(output_path): generates first when the list is empty;
\* the engine is left alone by the writing of the file.
export_insights(e) ==
    [(IF e.insights = <<>> THEN generate_all_insights(e) ELSE e)
     EXCEPT !.last_call = "export_insights"]

\* The number of generate_all_insights passes whose insights are held.
Batches(e) ==
    Cardinality({i \in DOMAIN e.insights : e.insights[i].title = "Peak Sales Periods"})
BatchCalls == {"generate_all_insights", "display_insights", "export_insights"}

(***************************************************************************)
(* Specifications                                                          *)
(***************************************************************************)
\* Every component as constructed; the caller of SalesForecaster holds table df.
Init(df) ==
    /\ sales_df = df
    /\ SalesForecasterInit
    /\ ForecastingServiceInit
    /\ StartupInit
    /\ svc_result = NoResult
    /\ HandlersInit
    /\ GeneratorInit
    /\ engine = NoEngine

\* SalesForecaster under every order of its calls.
FcPrepare ==
    /\ \E test_size \in TestSizes : prepare_data(sales_df, test_size)
    /\ UNCHANGED <<sales_df, svcVars, restVars, genVars, insVars>>
FcTrain == train_model /\ UNCHANGED <<sales_df, svcVars, restVars, genVars, insVars>>
FcForecast ==
    /\ \E periods \in 0..MaxPeriods : forecast(periods)
    /\ UNCHANGED <<sales_df, svcVars, restVars, genVars, insVars>>
FcEvaluate == evaluate_model /\ UNCHANGED <<sales_df, svcVars, restVars, genVars, insVars>>

FcSummary == forecast_summary /\ UNCHANGED <<sales_df, svcVars, restVars, genVars, insVars>>

NextForecaster == FcPrepare \/ FcTrain \/ FcForecast \/ FcEvaluate \/ FcSummary
InitForecaster == \E df \in FcTables : Init(df)
SpecForecaster == InitForecaster /\ [][NextForecaster]_vars

\* The REST service, one request at a time.
SvcStartupLoad == StartupLoad /\ UNCHANGED <<svc_result, fcVars, restVars, genVars, insVars>>
SvcStartupTrain == StartupTrain /\ UNCHANGED <<svc_result, fcVars, restVars, genVars, insVars>>
SvcHandle ==
    /\ \E endpoint \in Endpoints : \E req \in Requests(endpoint) : Handle(endpoint, req)
    /\ UNCHANGED <<fcVars, restVars, genVars, insVars>>

SvcReply == Reply /\ UNCHANGED <<fcVars, restVars, genVars, insVars>>

NextService == SvcStartupLoad \/ SvcStartupTrain \/ SvcHandle \/ SvcReply
InitService == Init(<<>>)
SpecService == InitService /\ [][NextService]_vars

\* The REST service with its handlers running concurrently.
RestBegin ==
    /\ \E h \in Handlers, endpoint \in Endpoints : HandlerBegin(h, endpoint)
    /\ UNCHANGED <<svc_result, fcVars, genVars, insVars>>
RestCall ==
    /\ \E h \in Handlers : HandlerCall(h)
    /\ UNCHANGED <<svc_result, fcVars, genVars, insVars>>

NextRest == SvcStartupLoad \/ SvcStartupTrain \/ RestBegin \/ RestCall
SpecRest == InitService /\ [][NextRest]_vars

\* The ForecastingService object called directly: load_data, train_model and
\* forecast requests in every order, one call at a time.
ApiLoad ==
    /\ svc_result = NoResult
    /\ \E outcome \in LoadOutcomes, table \in SvcTables :
          service' = load_data(service, outcome, table)
    /\ UNCHANGED <<startup, svc_result, fcVars, restVars, genVars, insVars>>
\* train_model(); an exception is the caller's to handle and the object lives on.
ApiTrain ==
    /\ svc_result = NoResult
    /\ service' = ForecastingService_train_model(service).service
    /\ UNCHANGED <<startup, svc_result, fcVars, restVars, genVars, insVars>>
\* get_forecast over the longest horizon, unfiltered or filtered by category.
ApiForecast ==
    /\ \E req \in {r \in RestRequests("forecast") : r.region = None} :
          Handle("forecast", req)
    /\ UNCHANGED <<fcVars, restVars, genVars, insVars>>

NextServiceApi == ApiLoad \/ ApiTrain \/ ApiForecast \/ SvcReply
SpecServiceApi == InitService /\ [][NextServiceApi]_vars

\* The data generator: constructions and calls in every order.
GenNew ==
    /\ \E g \in GenIds, start_date \in StartDates, end_date \in EndDates,
          seed \in Seeds : GenConstruct(g, start_date, end_date, seed)
    /\ UNCHANGED <<fcVars, svcVars, restVars, insVars>>
GenCall ==
    /\ \E g \in GenIds : GenGenerate(g)
    /\ UNCHANGED <<fcVars, svcVars, restVars, insVars>>

NextGenerator == GenNew \/ GenCall
SpecGenerator == InitService /\ [][NextGenerator]_vars

\* The insight engine on every input: single analyses called in every order,
\* or the batch entry points called in every order.  analyze_trends reads the
\* columns date and total_sales only and runs on every table.
InsAnalyzeTrends ==
    /\ engine.made
    /\ Len(engine.insights) < InsMaxInsights
    /\ engine' = analyze_trends(engine)
    /\ UNCHANGED <<fcVars, svcVars, restVars, genVars>>

\* A single analysis may be called: the engine holds a table with the
\* columns of the generator and is driven analysis by analysis.
InsSingle ==
    /\ engine.made
    /\ HasColumns(engine.sales_df)
    /\ Len(engine.insights) < InsMaxInsights
InsAnalyzeProducts ==
    /\ InsSingle
    /\ engine' = analyze_products(engine)
    /\ UNCHANGED <<fcVars, svcVars, restVars, genVars>>
InsAnalyzeRegions ==
    /\ InsSingle
    /\ engine' = analyze_regions(engine)
    /\ UNCHANGED <<fcVars, svcVars, restVars, genVars>>
InsAnalyzeForecast ==
    /\ InsSingle
    /\ engine' = analyze_forecast(engine)
    /\ UNCHANGED <<fcVars, svcVars, restVars, genVars>>

\* A batch entry point may be called: the engine has been driven through
\* them since its construction, as main does.
InsBatch ==
    /\ engine.made
    /\ HasColumns(engine.sales_df)
    /\ engine.last_call \in {""} \cup BatchCalls
InsGenerateAll ==
    /\ InsBatch
    /\ Batches(engine) < InsMaxBatches
    /\ engine' = generate_all_insights(engine)
    /\ UNCHANGED <<fcVars, svcVars, restVars, genVars>>
InsDisplay ==
    /\ InsBatch
    /\ engine' = display_insights(engine)
    /\ UNCHANGED <<fcVars, svcVars, restVars, genVars>>
InsExport ==
    /\ InsBatch
    /\ engine' = export_insights(engine)
    /\ UNCHANGED <<fcVars, svcVars, restVars, genVars>>

NextInsights ==
    \/ InsAnalyzeTrends \/ InsAnalyzeProducts \/ InsAnalyzeRegions \/ InsAnalyzeForecast
    \/ InsGenerateAll \/ InsDisplay \/ InsExport
InitInsights ==
    /\ sales_df = <<>>
    /\ SalesForecasterInit
    /\ ForecastingServiceInit
    /\ StartupInit
    /\ svc_result = NoResult
    /\ HandlersInit
    /\ GeneratorInit
    /\ \E input \in InsInputs : engine = InsightEngineInit(input[1], input[2])
SpecInsights == InitInsights /\ [][NextInsights]_vars

(***************************************************************************)
(* Properties                                                              *)
(***************************************************************************)

\* C1: forecast called while the forecaster's model is None raises the
\* 'Model not trained' error for every periods, returns no forecast frame and
\* leaves model, df_train and df_test as they were.
C1_ForecastUntrainedRaises ==
    [][(fc_result'.op = "forecast" /\ forecaster.model.kind = "None")
        => /\ fc_result'.status = "raised"
           /\ fc_result'.error = ModelNotTrainedError
           /\ fc_result'.frame = <<>>
           /\ forecaster' = forecaster]_vars

\* forecast has raised 'Model not trained' on a forecaster whose data was
\* prepared and whose model is None.
C1_Witness ==
    /\ fc_result = Raised("forecast", MaxPeriods, ModelNotTrainedError)
    /\ forecaster.model.kind = "None"
    /\ ~forecaster.df_train.none

\* C2: evaluate_model called before train_model has completed fails with the
\* same 'Model not trained' error that forecast raises.
C2_EvaluateUntrainedRaises ==
    (fc_result.op = "evaluate_model" /\ forecaster.model.kind # "fitted")
        => (fc_result.status = "raised" /\ fc_result.error = ModelNotTrainedError)

\* C3: every data endpoint answers 503 while data_loaded is false, and the
\* forecast endpoint answers 503 while model_trained is false; in those states
\* no handler reaches the service method.
C3_NotReadyUnavailable ==
    (svc_result.endpoint # "" /\
     \/ (svc_result.endpoint \in DataEndpoints /\ ~service.data_loaded)
     \/ (svc_result.endpoint = "forecast" /\ ~service.model_trained))
        => (svc_result.response.status = 503 /\ ~svc_result.computed)

\* The forecast endpoint has answered 503 on a service whose data is loaded
\* and whose model is not trained.
C3_Witness ==
    /\ svc_result.endpoint = "forecast"
    /\ svc_result.response.status = 503
    /\ service.data_loaded
    /\ ~service.model_trained

\* Why startup_event must fail: the load failed, or fit refuses the table.
StartupMustFail ==
    startup.load_outcome # "ok" \/ FitRaises(GroupbyDateSum(service.df.rows))

\* C4: startup is all-or-nothing: a failed load or a failed training makes
\* startup_event fail; startup never completes, and no request is served, with
\* data_loaded or model_trained false.
C4_StartupAllOrNothing ==
    /\ startup.pc = "ready"
          => (service.data_loaded /\ service.model_trained /\ service.model.kind = "fitted")
    /\ startup.pc \in {"ready", "failed"} => (startup.pc = "failed" <=> StartupMustFail)
    /\ svc_result.served => (service.data_loaded /\ service.model_trained)

\* startup_event has failed after a load that failed.
C4_Witness ==
    /\ startup.pc = "failed"
    /\ startup.load_outcome = "read_failed"
    /\ ~service.data_loaded

EmptyFilterResult == [type |-> "EmptyFilterResult", msg |-> "no data in range"]

\* C5: a forecast request whose category or region filter matches no
\* transaction ends in the explicit empty-filter error, never in a success.
C5_EmptyFilterExplicit ==
    (/\ svc_result.endpoint = "forecast"
     /\ svc_result.served
     /\ svc_result.computed
     /\ Truthy(svc_result.req.category) \/ Truthy(svc_result.req.region)
     /\ ForecastFilter(service.df.rows, svc_result.req.category, svc_result.req.region) = <<>>)
        => (/\ svc_result.response.status # 200
            /\ svc_result.response.detail = EmptyFilterResult.msg)

\* C6: get_historical_data whose filters select no transaction reports an
\* error and does not answer successfully with empty dates and sales.
C6_HistoricalEmptyIsError ==
    (/\ svc_result.endpoint = "historical"
     /\ svc_result.served
     /\ svc_result.computed
     /\ HistoricalFilter(service.df.rows, svc_result.req.start_date,
                         svc_result.req.end_date, svc_result.req.category) = <<>>)
        => svc_result.response.status # 200

C8_HandlersIsolated ==
    /\ isolated # "no"
    /\ startup.pc = "ready" => service = startup.snapshot

\* Two forecast handlers are inside the service at once after responses were
\* already given.
C8_Witness ==
    /\ isolated = "yes"
    /\ \A h \in Handlers : handlers[h].pc = "called" /\ handlers[h].endpoint = "forecast"

\* C9 (as amended): forecast(P) on a trained forecaster returns the training
\* dates followed by the P consecutive calendar days after the last training
\* date: H + P entries, of which the last P are the future ones.
C9_ForecastFrameDates ==
    (fc_result.op = "forecast" /\ fc_result.status = "returned")
        => LET history == forecaster.model.history
               H == Len(history)
               P == fc_result.arg
               frame == fc_result.frame
           IN /\ Len(frame) = H + P
              /\ \A i \in 1..H : frame[i].ds = history[i].ds
              /\ \A i \in 1..P : frame[H + i].ds = history[H].ds + i

\* C9 (as stated): forecast(P) returns exactly P entries, the days after the
\* last training date, and no entry on or before it.
C9_ForecastOnlyFuture ==
    (fc_result.op = "forecast" /\ fc_result.status = "returned")
        => LET history == forecaster.model.history
               frame == fc_result.frame
           IN /\ Len(frame) = fc_result.arg
              /\ \A i \in 1..Len(frame) : frame[i].ds = history[Len(history)].ds + i

\* forecast has returned its frame for the longest horizon on a model trained
\* with a holdout.
C9_Witness ==
    /\ fc_result.op = "forecast"
    /\ fc_result.status = "returned"
    /\ fc_result.arg = MaxPeriods
    /\ Len(forecaster.df_test.rows) > 0

\* C10: for every periods >= 0 the forecast response has exactly periods
\* entries in dates, predictions, lower_bound and upper_bound, all of them for
\* the consecutive days after the last date of the fitted history.
C10_ResponseFutureOnly ==
    (svc_result.endpoint = "forecast" /\ svc_result.response.status = 200)
        => LET body == svc_result.response.body
               P == svc_result.req.periods
               last == body.fitted_on[Len(body.fitted_on)].ds
           IN /\ Len(body.dates) = P
              /\ Len(body.predictions) = P
              /\ Len(body.lower_bound) = P
              /\ Len(body.upper_bound) = P
              /\ \A i \in 1..Len(body.days) :
                    body.days[i] = last + i /\ body.dates[i] = Strftime(last + i)

C12_AggregationKeepsTotal ==
    LET rows == service.df.rows
        total == SumSeq([i \in 1..Len(rows) |-> rows[i].total_sales])
        req == svc_result.req
        passes(t) ==
            /\ req.start_date # NoDate => t.date >= req.start_date
            /\ req.end_date # NoDate => t.date <= req.end_date
            /\ Truthy(req.category) => t.product_category = req.category
        passing == SumSeq([i \in 1..Len(rows) |->
                              IF passes(rows[i]) THEN rows[i].total_sales ELSE 0])
    IN /\ service.model_trained
              => SumSeq([i \in 1..Len(service.model.history) |-> service.model.history[i].y])
                     = total
       /\ (svc_result.endpoint = "trends" /\ svc_result.response.status = 200
              /\ req.period = "daily")
              => SumSeq(svc_result.response.body.sales) = total
       /\ (svc_result.endpoint = "historical" /\ svc_result.response.status = 200)
              => SumSeq(svc_result.response.body.sales) = 100 * passing

\* A filtered historical answer over a table in which one day has several
\* transactions and the category filter lets only some of the table through.
C12_FilteredWitness ==
    /\ svc_result.endpoint = "historical"
    /\ svc_result.response.status = 200
    /\ svc_result.served
    /\ Truthy(svc_result.req.category)
    /\ Len(svc_result.response.body.sales) = 1
    /\ \E i, j \in DOMAIN service.df.rows :
          /\ i # j
          /\ service.df.rows[i].date = service.df.rows[j].date
          /\ service.df.rows[i].product_category = svc_result.req.category
          /\ service.df.rows[j].product_category = svc_result.req.category
    /\ \E k \in DOMAIN service.df.rows :
          service.df.rows[k].product_category # svc_result.req.category

\* C13: the daily series prepare_data builds is strictly increasing by date
\* and has one entry for every calendar day from the first to the last
\* transaction date, also when some day in between has no transaction.
\* (Read on the series kept whole in df_train, test_size = 0.)
C13_DailySeriesGapless ==
    (fc_result.op = "prepare_data" /\ fc_result.arg = 0)
        => LET series == forecaster.df_train.rows
               n == Len(series)
           IN /\ \A i \in 1..(n - 1) : series[i].ds < series[i + 1].ds
              /\ n > 0 => n = series[n].ds - series[1].ds + 1

\* C14: prepare_data with test_size = H on a daily series of N entries, for
\* 0 <= H <= N, leaves the last H entries in df_test and the first N - H in
\* df_train, in date order; a train_model that succeeds has fitted the model
\* on df_train exactly, so no date of df_test is in the model's history.
C14_HoldoutSplit ==
    LET df_daily == GroupbyDateSum(sales_df)
        N == Len(df_daily)
        H == fc_result.arg
    IN /\ (fc_result.op = "prepare_data" /\ 0 <= H /\ H <= N)
              => /\ forecaster.df_test.rows = [i \in 1..H |-> df_daily[N - H + i]]
                 /\ forecaster.df_train.rows = [i \in 1..(N - H) |-> df_daily[i]]
       /\ (fc_result.op = "train_model" /\ fc_result.status = "returned")
              => /\ forecaster.model.history = forecaster.df_train.rows
                 /\ \A i \in DOMAIN forecaster.df_test.rows :
                       \A j \in DOMAIN forecaster.model.history :
                          forecaster.df_test.rows[i].ds # forecaster.model.history[j].ds

\* A model trained while a holdout is set aside.
C14_Witness ==
    /\ fc_result.op = "train_model"
    /\ fc_result.status = "returned"
    /\ Len(forecaster.df_test.rows) >= 1
    /\ Len(forecaster.df_train.rows) >= 2

\* C15: two generate_sales_data calls, each made directly after constructing
\* a generator with the same (start_date, end_date, seed), return the same
\* table: same rows, same order, same values.
C15_GeneratorDeterministic ==
    \A i, j \in DOMAIN gen_runs :
        (gen_runs[i].direct /\ gen_runs[j].direct /\ gen_runs[i].args = gen_runs[j].args)
            => gen_runs[i].table = gen_runs[j].table

\* Two construct-then-generate runs with the same arguments, the second made
\* after the first had consumed random numbers.
C15_Witness ==
    \E i, j \in DOMAIN gen_runs :
        /\ i < j
        /\ gen_runs[i].direct /\ gen_runs[j].direct
        /\ gen_runs[i].args = gen_runs[j].args
        /\ Len(gen_runs[j].table) >= 10

\* The number of rows of table dated d.
RowsOn(table, d) == Cardinality({k \in DOMAIN table : table[k].date = d})

\* C16: the table generate_sales_data returns has between 5 and 20
\* transactions for every day from start_date to end_date, none dated
\* outside that range, and its rows are in non-decreasing date order.
C16_DailyTransactionCounts ==
    \A i \in DOMAIN gen_runs :
        LET table == gen_runs[i].table
            start_date == gen_runs[i].args[1]
            end_date == gen_runs[i].args[2]
        IN /\ \A d \in start_date..end_date :
                 RowsOn(table, d) >= 5 /\ RowsOn(table, d) <= 20
           /\ \A k \in DOMAIN table :
                 start_date <= table[k].date /\ table[k].date <= end_date
           /\ \A k \in 1..(Len(table) - 1) : table[k].date <= table[k + 1].date

\* A table over two days in which one day has the largest number of
\* transactions allowed, and a table in which a day has the smallest.
C16_Witness ==
    /\ \E i \in DOMAIN gen_runs :
          /\ gen_runs[i].args[1] < gen_runs[i].args[2]
          /\ \E d \in gen_runs[i].args[1]..gen_runs[i].args[2] :
                RowsOn(gen_runs[i].table, d) = 20
    /\ \E i \in DOMAIN gen_runs :
          \E d \in gen_runs[i].args[1]..gen_runs[i].args[2] :
             RowsOn(gen_runs[i].table, d) = 5

C18_MapeGuarded ==
    (fc_result.op = "evaluate_model" /\ fc_result.status = "returned"
     /\ \E i \in DOMAIN forecaster.df_test.rows : forecaster.df_test.rows[i].y = 0)
        => fc_result.frame[1].MAPE.kind \notin {"nan", "inf"}

\* The number of entries of insights with the given title and severity.
TitleCount(insights, severity, title) ==
    Cardinality({i \in DOMAIN insights :
                    insights[i].title = title /\ insights[i].severity = severity})

\* C19: a call of analyze_trends appends 'Strong Overall Growth' (positive)
\* iff avg_growth > 5, 'Declining Sales Trend' (warning) iff avg_growth < -5,
\* never both and neither when -5 <= avg_growth <= 5, and 'Accelerating
\* Growth' (positive) iff recent_growth > avg_growth + 5, whatever the first
\* two did; it appends nothing else, and what it appends is of category Growth.
C19_TrendThresholds ==
    [][(engine'.last_call = "analyze_trends" /\ engine' # engine)
        => LET m == MonthlySales(engine.sales_df)
               appended == SubSeq(engine'.insights, Len(engine.insights) + 1,
                                  Len(engine'.insights))
               strong == TitleCount(appended, "positive", "Strong Overall Growth")
               declining == TitleCount(appended, "warning", "Declining Sales Trend")
               accelerating == TitleCount(appended, "positive", "Accelerating Growth")
           IN /\ SubSeq(engine'.insights, 1, Len(engine.insights)) = engine.insights
              /\ strong = (IF AvgGrowthAbove(m, 5) THEN 1 ELSE 0)
              /\ declining = (IF AvgGrowthBelow(m, 0 - 5) THEN 1 ELSE 0)
              /\ strong + declining <= 1
              /\ accelerating = (IF RecentAboveAvgPlus(m, 5) THEN 1 ELSE 0)
              /\ Len(appended) = strong + declining + accelerating
              /\ \A i \in DOMAIN appended : appended[i].category = "Growth"]_vars

\* The analysis of a table whose growth averages below the first threshold
\* while its last three months exceed the average by more than 5: only
\* 'Accelerating Growth' was appended.
C19_Witness ==
    /\ engine.last_call = "analyze_trends"
    /\ Len(MonthlySales(engine.sales_df)) = InsMaxMonths
    /\ ~AvgGrowthAbove(MonthlySales(engine.sales_df), 5)
    /\ engine.insights = <<Insight("Growth", "positive", "Accelerating Growth")>>

\* Monthly totals that rise from every month to the next, over two months or more.
StrictlyIncreasing(m) == Len(m) >= 2 /\ \A i \in 1..(Len(m) - 1) : m[i] < m[i + 1]

\* C20: on a table whose monthly totals are strictly increasing the engine
\* emits at least one Growth insight of severity positive and no 'Declining
\* Sales Trend'.
C20_IncreasingEmitsGrowth ==
    (engine.last_call = "analyze_trends" /\ StrictlyIncreasing(MonthlySales(engine.sales_df)))
        => /\ \E i \in DOMAIN engine.insights :
                 engine.insights[i].category = "Growth"
                 /\ engine.insights[i].severity = "positive"
           /\ \A i \in DOMAIN engine.insights :
                 engine.insights[i].title # "Declining Sales Trend"

\* C20 as the code has it: on strictly increasing monthly totals the engine
\* emits no 'Declining Sales Trend', and emits a positive Growth insight
\* exactly when the average growth exceeds 5 percent or the recent growth
\* exceeds the average by more than 5.
C20_IncreasingNeverDeclining ==
    (engine.last_call = "analyze_trends" /\ StrictlyIncreasing(MonthlySales(engine.sales_df)))
        => LET m == MonthlySales(engine.sales_df)
           IN /\ \A i \in DOMAIN engine.insights :
                    engine.insights[i].title # "Declining Sales Trend"
              /\ (\E i \in DOMAIN engine.insights :
                     engine.insights[i].category = "Growth"
                     /\ engine.insights[i].severity = "positive")
                    <=> (AvgGrowthAbove(m, 5) \/ RecentAboveAvgPlus(m, 5))

\* Strictly increasing totals that grow by less than 5 percent a month on
\* average, analysed, with no insight at all.
C20_Witness ==
    /\ engine.last_call = "analyze_trends"
    /\ StrictlyIncreasing(MonthlySales(engine.sales_df))
    /\ AvgGrowthBelow(MonthlySales(engine.sales_df), 5)
    /\ engine.insights = <<>>

\* C27: for every integer test_size, prepare_data leaves df_train followed by
\* df_test equal to the whole daily series, and df_test has exactly
\* min(max(test_size, 0), N) days of the N.
C27_SplitCoversSeries ==
    fc_result.op = "prepare_data"
        => LET df_daily == GroupbyDateSum(sales_df)
               N == Len(df_daily)
           IN /\ forecaster.df_train.rows \o forecaster.df_test.rows = df_daily
              /\ Len(forecaster.df_test.rows) = Min(Max(fc_result.arg, 0), N)

\* C28: evaluate_model scores the current model against the holdout split
\* off by the prepare_data call that produced the model's training data: the
\* model was fitted on the df_train now held, and on no day of df_test.
C28_EvaluateOwnHoldout ==
    (fc_result.op = "evaluate_model" /\ fc_result.status = "returned")
        => /\ forecaster.model.history = forecaster.df_train.rows
           /\ \A i \in DOMAIN forecaster.df_test.rows :
                 \A j \in DOMAIN forecaster.model.history :
                    forecaster.df_test.rows[i].ds # forecaster.model.history[j].ds

\* C29: get_forecast_summary applied to the frame forecast(P) returned covers
\* exactly the P days after the last training date, and no in-sample day.
C29_SummaryFutureOnly ==
    fc_result.op = "get_forecast_summary"
        => LET last == LastTrainDate(forecaster.model)
           IN fc_result.frame[1].days = [i \in 1..fc_result.arg |-> last + i]

\* C30: the table generate_sales_data returns depends only on the generator's
\* (start_date, end_date, seed): two calls with the same arguments return the
\* same table, whatever was constructed or called between the construction of
\* the generator and the call.
C30_TableDependsOnArgsOnly ==
    \A i, j \in DOMAIN gen_runs :
        gen_runs[i].args = gen_runs[j].args => gen_runs[i].table = gen_runs[j].table

\* C25: in every reachable state of the ForecastingService, model_trained
\* implies data_loaded; a request that has passed the model_trained check
\* was not computed while data_loaded was false.
C25_TrainedImpliesLoaded ==
    /\ service.model_trained => service.data_loaded
    /\ (svc_result.endpoint = "forecast" /\ svc_result.computed) => service.data_loaded

\* C26: whenever model_trained is true, the global model is the one fitted
\* on the daily aggregate of the table held in self.df.
C26_ModelOfCurrentTable ==
    service.model_trained
        => service.model = FittedProphet(GroupbyDateSum(service.df.rows), TRUE)

\* The sum of total_sales over the rows whose column col holds v.
ColumnTotal(rows, col, v) ==
    SumSeq([i \in 1..Len(rows) |-> IF rows[i][col] = v THEN rows[i].total_sales ELSE 0])

\* The insights a step has appended.
Appended(before, after) == SubSeq(after.insights, Len(before.insights) + 1, Len(after.insights))

\* C21: a call of analyze_products appends exactly one positive ' - Top
\* Performer' insight naming a category of maximum total sales, followed by
\* the ' - Underperforming' warning naming a category of minimum total sales
\* iff top_total / bottom_total > 10 (a zero bottom total under a positive top
\* total gives an infinite ratio and the warning; the call does not fail);
\* with a single category no warning is appended.
C21_ProductInsights ==
    [][(engine'.last_call = "analyze_products" /\ engine' # engine)
        => LET rows == engine.sales_df
               cats == {rows[i].product_category : i \in DOMAIN rows}
               total(c) == ColumnTotal(rows, "product_category", c)
               isMax(c) == c \in cats /\ \A d \in cats : total(d) <= total(c)
               isMin(c) == c \in cats /\ \A d \in cats : total(d) >= total(c)
               gate == \E c, d \in cats :
                          /\ isMax(c) /\ isMin(d)
                          /\ IF total(d) = 0 THEN total(c) > 0 ELSE total(c) > 10 * total(d)
               appended == Appended(engine, engine')
           IN /\ SubSeq(engine'.insights, 1, Len(engine.insights)) = engine.insights
              /\ Len(appended) = (IF gate THEN 2 ELSE 1)
              /\ appended[1].category = "Products"
              /\ appended[1].severity = "positive"
              /\ appended[1].title = " - Top Performer"
              /\ isMax(appended[1].subject[1])
              /\ gate => /\ appended[2].category = "Products"
                         /\ appended[2].severity = "warning"
                         /\ appended[2].title = " - Underperforming"
                         /\ isMin(appended[2].subject[1])
              /\ Cardinality(cats) = 1 => Len(appended) = 1]_vars

\* analyze_products has run on a table whose bottom category has a total of
\* zero under a positive top total: both insights were appended.
C21_Witness ==
    /\ engine.last_call = "analyze_products"
    /\ engine.insights =
           <<InsightAbout("Products", "positive", " - Top Performer", <<"Coffee">>),
             InsightAbout("Products", "warning", " - Underperforming", <<"Teff">>)>>
    /\ ColumnTotal(engine.sales_df, "product_category", "Teff") = 0
    /\ \E i \in DOMAIN engine.sales_df : engine.sales_df[i].product_category = "Teff"

\* C22: a call of analyze_regions appends exactly two Geography insights, in
\* this order: a positive one naming a region of maximum total sales and a
\* ' - Growth Opportunity' warning naming a region of minimum total sales,
\* whatever the ratio of the two totals; with a single region both name it.
C22_RegionInsights ==
    [][(engine'.last_call = "analyze_regions" /\ engine' # engine)
        => LET rows == engine.sales_df
               regs == {rows[i].region : i \in DOMAIN rows}
               total(r) == ColumnTotal(rows, "region", r)
               appended == Appended(engine, engine')
           IN /\ SubSeq(engine'.insights, 1, Len(engine.insights)) = engine.insights
              /\ Len(appended) = 2
              /\ \A i \in 1..2 : appended[i].category = "Geography"
              /\ appended[1].severity = "positive"
              /\ appended[1].title = " - Top Regional Market"
              /\ appended[1].subject[1] \in regs
              /\ \A r \in regs : total(r) <= total(appended[1].subject[1])
              /\ appended[2].severity = "warning"
              /\ appended[2].title = " - Growth Opportunity"
              /\ appended[2].subject[1] \in regs
              /\ \A r \in regs : total(r) >= total(appended[2].subject[1])
              /\ Cardinality(regs) = 1
                    => appended[1].subject = appended[2].subject]_vars

\* analyze_regions has run on a table of several transactions in a single
\* region: both insights name that region.
C22_Witness ==
    /\ engine.last_call = "analyze_regions"
    /\ Len(engine.sales_df) >= 2
    /\ \A i \in DOMAIN engine.sales_df : engine.sales_df[i].region = "Oromia"
    /\ Len(engine.insights) = 2
    /\ engine.insights[1].subject = <<"Oromia">>
    /\ engine.insights[2].subject = <<"Oromia">>
    /\ engine.insights[2].title = " - Growth Opportunity"

\* C23: a call of analyze_forecast appends nothing when no forecast was
\* supplied; otherwise it appends exactly one Forecast insight from the mean
\* of the last 30 actual daily totals and the mean of the last 30 forecast
\* entries: positive iff change% > 10, warning iff change% < -10, and info
\* 'Stable' otherwise, also at exactly 10 and -10 (and when change% is not a
\* number).
C23_ForecastInsight ==
    [][(engine'.last_call = "analyze_forecast" /\ engine' # engine)
        => LET rows == engine.sales_df
               fc == engine.forecast_df.rows
               dates == RowDates(rows)
               lastDates == {d \in dates :
                                Cardinality({x \in dates : x > d}) < ForecastWindow}
               lastRows == {i \in DOMAIN fc : i > Len(fc) - ForecastWindow}
               sumR == SumSeq([i \in 1..Len(rows) |->
                                  IF rows[i].date \in lastDates THEN rows[i].total_sales ELSE 0])
               nR == Cardinality(lastDates)
               sumF == SumSeq([i \in 1..Len(fc) |-> IF i \in lastRows THEN fc[i].yhat ELSE 0])
               nF == Cardinality(lastRows)
               number == nR > 0 /\ nF > 0 /\ ~(sumR = 0 /\ sumF = 0)
               up == number /\ IF sumR = 0 THEN sumF > 0
                               ELSE 100 * (sumF * nR - sumR * nF) > 10 * sumR * nF
               down == number /\ IF sumR = 0 THEN sumF < 0
                                 ELSE 100 * (sumF * nR - sumR * nF) < (0 - 10) * sumR * nF
               appended == Appended(engine, engine')
           IN /\ SubSeq(engine'.insights, 1, Len(engine.insights)) = engine.insights
              /\ engine.forecast_df.none => appended = <<>>
              /\ ~engine.forecast_df.none
                    => /\ Len(appended) = 1
                       /\ appended[1].category = "Forecast"
                       /\ appended[1].severity = "positive" <=> up
                       /\ appended[1].severity = "warning" <=> down
                       /\ appended[1].severity = "info" <=> (~up /\ ~down)
                       /\ appended[1].severity = "info"
                             => appended[1].title = "Stable Sales Expected"]_vars

\* analyze_forecast has run on series longer than the window whose last 30
\* means are 20 and 22, a change of exactly 10 percent: 'Stable' was appended.
C23_Witness ==
    /\ engine.last_call = "analyze_forecast"
    /\ Len(engine.sales_df) > ForecastWindow
    /\ Len(engine.forecast_df.rows) > ForecastWindow
    /\ engine.sales_df[Len(engine.sales_df)].total_sales = 20
    /\ engine.forecast_df.rows[Len(engine.forecast_df.rows)].yhat = 22
    /\ engine.insights = <<Insight("Forecast", "info", "Stable Sales Expected")>>

\* C24: after any sequence of generate_all_insights, display_insights and
\* export_insights calls on one engine, the insights list equals the list a
\* single generate_all_insights call produces on a fresh engine over the same
\* data.
C24_OneBatch ==
    engine.last_call \in BatchCalls
        => engine.insights =
              generate_all_insights(
                  InsightEngineInit(engine.sales_df, engine.forecast_df)).insights

====
